---- MODULE Spec2Model ----
(***************************************************************************)
(* Where2Work (src/app.py): the layout and selection engine of the         *)
(* Streamlit application.  One run of main() is one render cycle: it reads *)
(* the sidebar widgets and the selection set kept in st.session_state,     *)
(* filters the data, partitions it into the shortlist and the pool, lays   *)
(* each partition out with create_bubble_chart and handles at most one     *)
(* marker click.                                                           *)
(*                                                                         *)
(* Text is modelled as sequences of one-character strings, so that strip,  *)
(* split and the substring test `in` are computed and not assumed.  The    *)
(* en dash of the band names is written "-".  Real numbers are fixed-point *)
(* integers in thousandths.                                                *)
(***************************************************************************)
EXTENDS Integers, Sequences, FiniteSets, TLC

VARIABLES
    selected_locations,       \* sidebar multiselect "Company Headquarters"
    selected_employee_bands,  \* sidebar multiselect "Number of Employees"
    selected_anzsic_codes,    \* sidebar multiselect "Industry"
    session_state,            \* st.session_state: key -> value
    rerun_pending,            \* st.rerun() was called: a rerun is queued
    np_random,                \* position in numpy's global random stream
    filtered_df,              \* index of the result of apply_filters
    shortlist_df,             \* index of the shortlist partition
    all_companies_df,         \* index of the pool partition
    shortlist_chart,          \* df_plot of the shortlist chart, or NotRendered
    all_companies_chart,      \* df_plot of the pool chart, or NotRendered
    handled,                  \* the click the last cycle handled, or NoClick
    raised,                   \* the exception that ended the last cycle, or NoError
    last_op,                  \* what the last step was
    selection_before,         \* the Selection Set at the start of the last run
    observed,                 \* observer: one remembered layout pass
    label_in,                 \* classifier harness: the raw label
    label_out                 \* classifier harness: band_mapping's result

vars == <<selected_locations, selected_employee_bands, selected_anzsic_codes,
          session_state, rerun_pending, np_random, filtered_df, shortlist_df,
          all_companies_df, shortlist_chart, all_companies_chart, handled,
          raised, last_op, selection_before, observed, label_in, label_out>>

-----------------------------------------------------------------------------
(* Bounds of the model *)

\* number of rows of the data file
NumRows == 4
\* largest number of pieces a raw label of the classifier harness is made of
MaxPieces == 3
\* largest point index a click event carries
MaxIdx == 2

-----------------------------------------------------------------------------
(* Text *)

Whitespace == {" ", "\t"}

RECURSIVE lstrip(_)
lstrip(s) ==
    IF s # <<>> /\ Head(s) \in Whitespace THEN lstrip(Tail(s)) ELSE s

RECURSIVE rstrip(_)
rstrip(s) ==
    IF s # <<>> /\ s[Len(s)] \in Whitespace
    THEN rstrip(SubSeq(s, 1, Len(s) - 1)) ELSE s

\* str.strip()
strip(s) == rstrip(lstrip(s))

RECURSIVE TakeWord(_)
TakeWord(s) ==
    IF s = <<>> \/ Head(s) \in Whitespace THEN <<>>
    ELSE <<Head(s)>> \o TakeWord(Tail(s))

\* str.split()[0]
split0(s) == TakeWord(lstrip(s))

\* the function f on 1..n as a tuple
RECURSIVE AsTuple(_, _)
AsTuple(f, n) == IF n = 0 THEN <<>> ELSE Append(AsTuple(f, n - 1), f[n])

\* Python's `t in s` on strings
Contains(s, t) ==
    \E i \in 0..(Len(s) - Len(t)) : SubSeq(s, i + 1, i + Len(t)) = t

-----------------------------------------------------------------------------
(* Employee bands and the classifier *)

Employees == <<"E", "m", "p", "l", "o", "y", "e", "e", "s">>

create_employee_band_order ==
    << <<"1", "-", "5", " ">> \o Employees,
       <<"6", "-", "1", "9", " ">> \o Employees,
       <<"2", "0", "-", "4", "9", " ">> \o Employees >>

band_order == create_employee_band_order

\* The loop without its break: the last matching band wins.
RECURSIVE MapFromLast(_, _)
MapFromLast(unique_band, k) ==
    IF k < 1 THEN unique_band
    ELSE IF Contains(unique_band, split0(band_order[k])) THEN band_order[k]
         ELSE MapFromLast(unique_band, k - 1)

band_mapping_last(unique_band) == MapFromLast(unique_band, Len(band_order))

\* for standard_band in band_order: first match, then break
RECURSIVE MapFrom(_, _)
MapFrom(unique_band, k) ==
    IF k > Len(band_order) THEN unique_band
    ELSE IF Contains(unique_band, split0(band_order[k])) THEN band_order[k]
         ELSE MapFrom(unique_band, k + 1)

\* band_mapping[unique_band]
band_mapping(unique_band) == MapFrom(unique_band, 1)

\* Employee_Band_Standard of a raw Estimated_Employee_Band
Employee_Band_Standard(raw) == band_mapping(strip(raw))

-----------------------------------------------------------------------------
(* The data file and load_company_data *)

Staff == <<"s", "t", "a", "f", "f">>

\* Rows of company_data.csv.  Row 2 carries a padded, non-standard label of
\* the 6-19 band, row 4 a label no band matches, row 6 a label two bands match.
CsvRows ==
    << [Entity_Legal_Name |-> "Aroha", Headquarters_Location |-> "Auckland",
        Estimated_Employee_Band |-> <<"1", "-", "5", " ">> \o Employees,
        Primary_ANZSIC_Code |-> "K6411 (Financial Services)"],
       [Entity_Legal_Name |-> "Beacon", Headquarters_Location |-> "Wellington",
        Estimated_Employee_Band |-> <<" ", "6", "-", "1", "9", " ">> \o Staff \o <<" ">>,
        Primary_ANZSIC_Code |-> "M7000"],
       [Entity_Legal_Name |-> "Cirrus", Headquarters_Location |-> "Wellington",
        Estimated_Employee_Band |-> <<"6", "-", "1", "9", " ">> \o Employees,
        Primary_ANZSIC_Code |-> "K6411 (Financial Services)"],
       [Entity_Legal_Name |-> "Dune", Headquarters_Location |-> "Auckland",
        Estimated_Employee_Band |-> <<"5", "0", "-", "9", "9", " ">> \o Employees,
        Primary_ANZSIC_Code |-> "M7000"],
       [Entity_Legal_Name |-> "Ember", Headquarters_Location |-> "Auckland",
        Estimated_Employee_Band |-> <<"2", "0", "-", "4", "9", " ">> \o Employees,
        Primary_ANZSIC_Code |-> "M7000"],
       [Entity_Legal_Name |-> "Fern", Headquarters_Location |-> "Wellington",
        Estimated_Employee_Band |-> <<"1", "1", "-", "5", "6", "-", "1", "9">>,
        Primary_ANZSIC_Code |-> "K6411 (Financial Services)"] >>

\* pd.read_csv, then the band label is stripped; `index` is the RangeIndex.
load_company_data(rows) ==
    AsTuple([i \in 1..Len(rows) |->
        [index |-> i - 1,
         Entity_Legal_Name |-> rows[i].Entity_Legal_Name,
         Headquarters_Location |-> rows[i].Headquarters_Location,
         Estimated_Employee_Band |-> strip(rows[i].Estimated_Employee_Band),
         Primary_ANZSIC_Code |-> rows[i].Primary_ANZSIC_Code]], Len(rows))

df == load_company_data(SubSeq(CsvRows, 1, NumRows))

Names == {df[i].Entity_Legal_Name : i \in 1..Len(df)}

\* df['Estimated_Employee_Band'].str.strip(), per distinct raw label
Employee_Band_Clean ==
    [raw \in {df[i].Estimated_Employee_Band : i \in 1..Len(df)} |-> strip(raw)]

\* the dict band_mapping the loop over unique_bands builds
band_mapping_dict ==
    [unique_band \in {Employee_Band_Clean[raw] : raw \in DOMAIN Employee_Band_Clean}
        |-> band_mapping(unique_band)]

\* df['Employee_Band_Clean'].map(band_mapping), per raw label
StandardOf(raw) == band_mapping_dict[Employee_Band_Clean[raw]]

\* options of the three multiselects
all_locations == {df[i].Headquarters_Location : i \in 1..Len(df)}
all_employee_bands == {band_order[k] : k \in 1..Len(band_order)}
all_anzsic_codes == {df[i].Primary_ANZSIC_Code : i \in 1..Len(df)}

-----------------------------------------------------------------------------
(* apply_filters *)

\* the frame with the columns Employee_Band_Clean and Employee_Band_Standard
Classified(frame) ==
    AsTuple([i \in 1..Len(frame) |->
        [index |-> frame[i].index,
         Entity_Legal_Name |-> frame[i].Entity_Legal_Name,
         Headquarters_Location |-> frame[i].Headquarters_Location,
         Estimated_Employee_Band |-> frame[i].Estimated_Employee_Band,
         Primary_ANZSIC_Code |-> frame[i].Primary_ANZSIC_Code,
         Employee_Band_Clean |-> Employee_Band_Clean[frame[i].Estimated_Employee_Band],
         Employee_Band_Standard |-> StandardOf(frame[i].Estimated_Employee_Band)]],
        Len(frame))

\* if values: frame = frame[frame[column].isin(values)]
FilterStep(frame, column, values) ==
    LET Test(r) == r[column] \in values
    IN  IF values # {} THEN SelectSeq(frame, Test) ELSE frame

\* The band filter tested on the cleaned raw label instead of the canonical band.
apply_filters_raw(frame, locations, employee_bands, anzsic_codes) ==
    FilterStep(
        FilterStep(
            FilterStep(Classified(frame), "Headquarters_Location", locations),
            "Employee_Band_Clean", employee_bands),
        "Primary_ANZSIC_Code", anzsic_codes)

apply_filters(frame, locations, employee_bands, anzsic_codes) ==
    FilterStep(
        FilterStep(
            FilterStep(Classified(frame), "Headquarters_Location", locations),
            "Employee_Band_Standard", employee_bands),
        "Primary_ANZSIC_Code", anzsic_codes)

-----------------------------------------------------------------------------
(* The partition of main() *)

\* frame.index: the index labels of the rows, in row order
IndexOf(frame) == AsTuple([i \in 1..Len(frame) |-> frame[i].index], Len(frame))

\* Every filtered row is put in the pool.
PoolUnfiltered(frame, selection) == frame

\* filtered_df[filtered_df['Entity_Legal_Name'].isin(shortlisted_companies)]
ShortlistRows(frame, selection) ==
    LET Test(r) == r.Entity_Legal_Name \in selection IN SelectSeq(frame, Test)

\* filtered_df[~filtered_df['Entity_Legal_Name'].isin(shortlisted_companies)]
PoolRows(frame, selection) ==
    LET Test(r) == ~(r.Entity_Legal_Name \in selection) IN SelectSeq(frame, Test)

-----------------------------------------------------------------------------
(* numpy: the random stream and the trigonometry, in thousandths *)

\* np.random.random_sample() for the first draws after np.random.seed(42),
\* in thousandths; the model reads the table cyclically.
Random42 ==
    <<374, 950, 731, 598, 156, 155, 58, 866, 601, 708, 20, 969,
      832, 212, 181, 183, 304, 524, 431, 291, 611, 139, 292, 366>>

random_sample(k) == Random42[(k % Len(Random42)) + 1]

\* The generator is left where the previous pass stopped.
NoSeed(state) == state

\* np.random.seed(42): the stream restarts at its first draw
Seed(state) == 0

\* np.random.uniform(low, high), the k-th draw of the stream
uniform(low, high, k) == low + ((high - low) * random_sample(k)) \div 1000

\* a * b of two fixed-point numbers, rounded towards zero
Mul(a, b) ==
    LET m == (IF a < 0 THEN -a ELSE a) * (IF b < 0 THEN -b ELSE b)
    IN  IF (a < 0) = (b < 0) THEN m \div 1000 ELSE -(m \div 1000)

TwoPi == 6283
Pi == 3142
HalfPi == 1571

\* cos on [0, pi/2]: the Taylor polynomial of degree 8
CosQ(a) ==
    LET t  == (a * a) \div 1000
        t2 == (t * t) \div 1000
    IN  1000 - t \div 2 + t2 \div 24 - (t2 * t) \div 720000
             + (t2 * t2) \div 40320000

\* np.cos
Cos(angle) ==
    LET a == angle % TwoPi
    IN  IF a <= HalfPi THEN CosQ(a)
        ELSE IF a <= Pi THEN -CosQ(Pi - a)
        ELSE IF a <= Pi + HalfPi THEN -CosQ(a - Pi)
        ELSE CosQ(TwoPi - a)

\* np.sin
Sin(angle) == Cos(angle - HalfPi)

-----------------------------------------------------------------------------
(* create_bubble_chart: the jitter layout *)

\* A float column holds a number {v}, or NaN, the empty set.
NaN == {}
Val(x) == CHOOSE v \in x : TRUE

jitter_strength_x == 450
jitter_strength_y == 2500

\* positions (1-based) of the rows of the band, in row order
RECURSIVE BandIndices(_, _, _)
BandIndices(frame, band, i) ==
    IF i > Len(frame) THEN <<>>
    ELSE (IF frame[i].Employee_Band_Standard = band THEN <<i>> ELSE <<>>)
         \o BandIndices(frame, band, i + 1)

\* the offsets of one band of n_companies rows; `state` is the stream position
BandJitter(n_companies, state) ==
    IF n_companies = 1
    THEN [x_jitter |-> <<0>>, y_jitter |-> <<0>>, state |-> state]
    ELSE LET angle_step == TwoPi \div n_companies
             radius_variation(i) == uniform(300, 1000, state + i)
             angle(i) == i * angle_step
                         + uniform(-300, 300, state + n_companies + i)
         IN  [x_jitter |-> AsTuple([j \in 1..n_companies |->
                  Mul(Mul(radius_variation(j - 1), Cos(angle(j - 1))),
                      jitter_strength_x)], n_companies),
              y_jitter |-> AsTuple([j \in 1..n_companies |->
                  Mul(Mul(radius_variation(j - 1), Sin(angle(j - 1))),
                      jitter_strength_y)], n_companies),
              state |-> state + 2 * n_companies]

\* df_plot.loc[band_indices, ...] = ...: jit with the band's offsets written
Scattered(jit, band_indices, b) ==
    LET at(i) == CHOOSE j \in 1..Len(band_indices) : band_indices[j] = i
    IN  AsTuple([i \in 1..Len(jit) |->
            IF \E j \in 1..Len(band_indices) : band_indices[j] = i
            THEN [x |-> b.x_jitter[at(i)], y |-> b.y_jitter[at(i)]]
            ELSE jit[i]], Len(jit))

RECURSIVE JitterBands(_, _, _, _)

\* the band's rows get their offsets, the stream advances, the loop goes on
BandStep(frame, k, jit, band_indices, b) ==
    JitterBands(frame, k + 1, b.state, Scattered(jit, band_indices, b))

\* one iteration of the loop, band_indices being the rows of band_order[k]
BandBody(frame, k, state, jit, band_indices) ==
    IF Len(band_indices) = 0 THEN JitterBands(frame, k + 1, state, jit)
    ELSE BandStep(frame, k, jit, band_indices,
                  BandJitter(Len(band_indices), state))

\* for band in band_order: ...; jit maps a row position to its offsets
JitterBands(frame, k, state, jit) ==
    IF k > Len(band_order) THEN [jit |-> jit, state |-> state]
    ELSE BandBody(frame, k, state, jit, BandIndices(frame, band_order[k], 1))

\* band_to_numeric: the rank of a band of band_order; NaN for any other band
band_to_numeric(band) ==
    IF \E k \in 1..Len(band_order) : band_order[k] = band
    THEN {(CHOOSE k \in 1..Len(band_order) : band_order[k] = band) - 1}
    ELSE NaN

\* x_numeric + x_jitter
Add(x_numeric, x_jitter) ==
    IF x_numeric = NaN THEN NaN ELSE {1000 * Val(x_numeric) + x_jitter}

\* df_plot with the column Employee_Band_Standard of the chart
PlotRows(frame) ==
    AsTuple([i \in 1..Len(frame) |->
        [Entity_Legal_Name |-> frame[i].Entity_Legal_Name,
         Employee_Band_Standard |-> StandardOf(frame[i].Estimated_Employee_Band)]],
        Len(frame))

\* the columns x_jitter, y_jitter, x_numeric and x_position
Positioned(plot, pass) ==
    [df_plot |-> AsTuple([i \in 1..Len(plot) |->
        [Entity_Legal_Name |-> plot[i].Entity_Legal_Name,
         x_jitter |-> pass.jit[i].x,
         y_jitter |-> pass.jit[i].y,
         x_numeric |-> band_to_numeric(plot[i].Employee_Band_Standard),
         x_position |-> Add(band_to_numeric(plot[i].Employee_Band_Standard),
                            pass.jit[i].x)]], Len(plot)),
     state |-> pass.state]

LayoutOf(plot, state) ==
    Positioned(plot, JitterBands(plot, 1, state,
                                 [i \in 1..Len(plot) |-> [x |-> 0, y |-> 0]]))

\* df_plot after the layout pass started at stream position `state`
Layout(frame, state) == LayoutOf(PlotRows(frame), state)

-----------------------------------------------------------------------------
(* create_bubble_chart: rendering and the click handler *)

NotRendered == <<>>
NoClick == [chart |-> "none"]
NoError == "none"
NoEvent == <<>>
NotObserved == <<>>

\* what the render surface may report for a chart: no point, or one point index
Events == {NoEvent} \cup {<<i>> : i \in 0..MaxIdx}

HasKey(state) == "shortlisted_companies" \in DOMAIN state

\* if 'shortlisted_companies' not in st.session_state: ... = set()
EnsureKey(state) ==
    IF HasKey(state) THEN state ELSE [k \in {"shortlisted_companies"} |-> {}]

\* the Selection Set
SelectionOf(state) == EnsureKey(state)["shortlisted_companies"]
SelectionSet == SelectionOf(session_state)

\* The pool generator is seeded only when the shortlist pass did not run first.
LayoutPassShared(frame, is_rejected, state) ==
    Layout(frame, IF is_rejected THEN NoSeed(state) ELSE Seed(state))

\* the layout pass of one call of create_bubble_chart
LayoutPass(frame, is_rejected, state) == Layout(frame, Seed(state))

\* The two branches exchanged: the pool removes, the shortlist adds.
ToggleSwapped(selection, clicked_company, is_rejected) ==
    IF is_rejected
    THEN selection \ {clicked_company}
    ELSE selection \cup {clicked_company}

\* Toggle company shortlist status
Toggle(selection, clicked_company, is_rejected) ==
    IF is_rejected
    THEN selection \cup {clicked_company}
    ELSE IF clicked_company \in selection
         THEN selection \ {clicked_company}
         ELSE selection

ChartName(is_rejected) == IF is_rejected THEN "pool" ELSE "shortlist"

\* Handle click events, `pass` being the layout pass of the chart
HandleClick(pass, is_rejected, event, state) ==
    LET drawn == [chart |-> pass.df_plot, session_state |-> state,
                  np_random |-> pass.state, handled |-> NoClick,
                  raised |-> NoError, rerun |-> FALSE]
        clicked_idx == event[1]
        clicked_company == pass.df_plot[clicked_idx + 1].Entity_Legal_Name
    IN  IF event = NoEvent THEN drawn
        ELSE IF clicked_idx >= Len(pass.df_plot)
        THEN [drawn EXCEPT !.raised = "IndexError"]
        ELSE [drawn EXCEPT
                !.session_state =
                    [k \in {"shortlisted_companies"} |->
                        Toggle(SelectionOf(state), clicked_company, is_rejected)],
                !.handled = [chart |-> ChartName(is_rejected),
                             point_index |-> clicked_idx,
                             clicked_company |-> clicked_company],
                !.rerun = TRUE]

\* One call: `event` is what st.plotly_chart returns, `state` the session
\* state, `rng` the global random stream.  `rerun` tells that st.rerun() was
\* reached, `raised` that an exception left the function.
create_bubble_chart(frame, is_rejected, event, state, rng) ==
    IF frame = <<>>
    THEN [chart |-> NotRendered, session_state |-> state, np_random |-> rng,
          handled |-> NoClick, raised |-> NoError, rerun |-> FALSE]
    ELSE HandleClick(LayoutPass(frame, is_rejected, rng), is_rejected,
                     event, state)

-----------------------------------------------------------------------------
(* main: one render cycle *)

\* The handler returns to its caller: no rerun is requested.
st_rerun_missing(result) == FALSE

\* st.rerun() ends the script run when the handler reached it
st_rerun(result) == result.rerun

Stopped(result) == st_rerun(result) \/ result.raised # NoError

RenderCycle(locations, employee_bands, anzsic_codes, event_shortlist, event_pool) ==
    \E filtered \in {apply_filters(df, locations, employee_bands, anzsic_codes)} :
    \E selection \in {SelectionSet} :
    \E r1 \in {create_bubble_chart(ShortlistRows(filtered, selection), FALSE,
                                   event_shortlist, EnsureKey(session_state),
                                   np_random)} :
    \E last \in {IF Stopped(r1) THEN r1
                 ELSE create_bubble_chart(PoolRows(filtered, selection), TRUE,
                                          event_pool, r1.session_state,
                                          r1.np_random)} :
        /\ selected_locations' = locations
        /\ selected_employee_bands' = employee_bands
        /\ selected_anzsic_codes' = anzsic_codes
        /\ selection_before' = selection
        /\ filtered_df' = IndexOf(filtered)
        /\ shortlist_df' = IndexOf(ShortlistRows(filtered, selection))
        /\ all_companies_df' = IndexOf(PoolRows(filtered, selection))
        /\ shortlist_chart' = r1.chart
        /\ all_companies_chart' = IF Stopped(r1) THEN NotRendered ELSE last.chart
        /\ session_state' = last.session_state
        /\ np_random' = last.np_random
        /\ handled' = last.handled
        /\ raised' = last.raised
        /\ rerun_pending' = st_rerun(last)

\* a script run that stops before the pipeline: nothing is rendered
NothingRendered ==
    /\ filtered_df' = <<>>
    /\ shortlist_df' = <<>>
    /\ all_companies_df' = <<>>
    /\ shortlist_chart' = NotRendered
    /\ all_companies_chart' = NotRendered
    /\ handled' = NoClick
    /\ raised' = NoError

Init ==
    /\ selected_locations = {}
    /\ selected_employee_bands = {}
    /\ selected_anzsic_codes = {}
    /\ session_state = [k \in {} |-> {}]
    /\ rerun_pending = FALSE
    /\ np_random \in 0..1
    /\ filtered_df = <<>>
    /\ shortlist_df = <<>>
    /\ all_companies_df = <<>>
    /\ shortlist_chart = NotRendered
    /\ all_companies_chart = NotRendered
    /\ handled = NoClick
    /\ raised = NoError
    /\ last_op = "init"
    /\ selection_before = {}
    /\ observed = NotObserved
    /\ label_in = <<>>
    /\ label_out = <<>>

Idle == last_op # "init" /\ ~rerun_pending

\* the first script run of the session
FirstRun ==
    /\ last_op = "init"
    /\ RenderCycle(selected_locations, selected_employee_bands,
                   selected_anzsic_codes, NoEvent, NoEvent)
    /\ last_op' = "first_run"
    /\ UNCHANGED <<observed, label_in, label_out>>

\* the user changes the multiselect "Company Headquarters"
ChangeLocations ==
    /\ Idle
    /\ \E locations \in (SUBSET all_locations) \ {selected_locations} :
          RenderCycle(locations, selected_employee_bands,
                      selected_anzsic_codes, NoEvent, NoEvent)
    /\ last_op' = "filters"
    /\ UNCHANGED <<observed, label_in, label_out>>

\* the user changes the multiselect "Number of Employees"
ChangeEmployeeBands ==
    /\ Idle
    /\ \E employee_bands \in (SUBSET all_employee_bands) \ {selected_employee_bands} :
          RenderCycle(selected_locations, employee_bands,
                      selected_anzsic_codes, NoEvent, NoEvent)
    /\ last_op' = "filters"
    /\ UNCHANGED <<observed, label_in, label_out>>

\* the user changes the multiselect "Industry"
ChangeAnzsicCodes ==
    /\ Idle
    /\ \E anzsic_codes \in (SUBSET all_anzsic_codes) \ {selected_anzsic_codes} :
          RenderCycle(selected_locations, selected_employee_bands,
                      anzsic_codes, NoEvent, NoEvent)
    /\ last_op' = "filters"
    /\ UNCHANGED <<observed, label_in, label_out>>

\* the "Clear Filters" button: st.rerun() and nothing else
ClearFilters ==
    /\ Idle
    /\ NothingRendered
    /\ selection_before' = SelectionSet
    /\ rerun_pending' = TRUE
    /\ last_op' = "clear_filters"
    /\ UNCHANGED <<selected_locations, selected_employee_bands,
                   selected_anzsic_codes, session_state, np_random,
                   observed, label_in, label_out>>

\* the "Clear Shortlist" button
ClearShortlist ==
    /\ Idle
    /\ NothingRendered
    /\ selection_before' = SelectionSet
    /\ session_state' = [k \in {"shortlisted_companies"} |-> {}]
    /\ rerun_pending' = TRUE
    /\ last_op' = "clear_shortlist"
    /\ UNCHANGED <<selected_locations, selected_employee_bands,
                   selected_anzsic_codes, np_random,
                   observed, label_in, label_out>>

\* the user clicks a marker: the run sees a click event of one chart
MarkerClick ==
    /\ Idle
    /\ \E is_rejected \in BOOLEAN, point_index \in 0..MaxIdx :
          RenderCycle(selected_locations, selected_employee_bands,
                      selected_anzsic_codes,
                      IF is_rejected THEN NoEvent ELSE <<point_index>>,
                      IF is_rejected THEN <<point_index>> ELSE NoEvent)
    /\ last_op' = "click"
    /\ UNCHANGED <<observed, label_in, label_out>>

\* the run st.rerun() queued: the widgets keep their values, and the render
\* surface may still report the selection of either chart
Rerun ==
    /\ rerun_pending
    /\ \E event_shortlist \in Events, event_pool \in Events :
          RenderCycle(selected_locations, selected_employee_bands,
                      selected_anzsic_codes, event_shortlist, event_pool)
    /\ last_op' = "rerun"
    /\ UNCHANGED <<observed, label_in, label_out>>

Next ==
    \/ FirstRun
    \/ ChangeLocations
    \/ ChangeEmployeeBands
    \/ ChangeAnzsicCodes
    \/ ClearFilters
    \/ ClearShortlist
    \/ MarkerClick
    \/ Rerun

Spec == Init /\ [][Next]_vars

\* the last script run went through the pipeline of main()
Rendered == last_op \in {"first_run", "filters", "click", "rerun"}

-----------------------------------------------------------------------------
(* The layout observer: one layout pass that drew from the random stream   *)
(* is remembered, later passes over the same rows are compared with it.    *)

Observation(is_rejected) ==
    [is_rejected |-> is_rejected,
     frame |-> IF is_rejected THEN all_companies_df ELSE shortlist_df,
     other |-> IF is_rejected THEN shortlist_df ELSE all_companies_df,
     df_plot |-> IF is_rejected THEN all_companies_chart ELSE shortlist_chart]

\* some row of the chart got an offset: its pass drew from the stream
Jittered(chart) ==
    \E i \in 1..Len(chart) : chart[i].x_jitter # 0 \/ chart[i].y_jitter # 0

Observe ==
    /\ observed = NotObserved
    /\ \E is_rejected \in BOOLEAN :
          /\ Jittered(Observation(is_rejected).df_plot)
          /\ observed' = Observation(is_rejected)
    /\ UNCHANGED <<selected_locations, selected_employee_bands,
                   selected_anzsic_codes, session_state, rerun_pending,
                   np_random, filtered_df, shortlist_df, all_companies_df,
                   shortlist_chart, all_companies_chart, handled, raised,
                   last_op, selection_before, label_in, label_out>>

NextLayout ==
    \/ FirstRun
    \/ ChangeLocations
    \/ ClearShortlist
    \/ MarkerClick
    \/ Rerun
    \/ Observe

SpecLayout == Init /\ [][NextLayout]_vars

-----------------------------------------------------------------------------
(* The classifier harness: band_mapping applied to raw labels *)

Pieces ==
    { <<"1", "-", "5">>, <<"6", "-", "1", "9">>, <<"2", "0", "-", "4", "9">>,
      <<"5", "0", "-", "9", "9">>, <<" ">>, <<"1">>, <<" ">> \o Employees }

RECURSIVE LabelsOf(_)
LabelsOf(n) ==
    IF n = 0 THEN {<<>>}
    ELSE LabelsOf(n - 1) \cup {l \o q : l \in LabelsOf(n - 1), q \in Pieces}

RawLabels == LabelsOf(MaxPieces)

InitClassify ==
    /\ Init
    /\ np_random = 0

PickLabel ==
    /\ last_op = "init"
    /\ \E raw \in RawLabels : label_in' = raw
    /\ label_out' = <<>>
    /\ last_op' = "label"
    /\ UNCHANGED <<selected_locations, selected_employee_bands,
                   selected_anzsic_codes, session_state, rerun_pending,
                   np_random, filtered_df, shortlist_df, all_companies_df,
                   shortlist_chart, all_companies_chart, handled, raised,
                   selection_before, observed>>

Classify ==
    /\ last_op = "label"
    /\ label_out' = Employee_Band_Standard(label_in)
    /\ last_op' = "classified"
    /\ UNCHANGED <<selected_locations, selected_employee_bands,
                   selected_anzsic_codes, session_state, rerun_pending,
                   np_random, filtered_df, shortlist_df, all_companies_df,
                   shortlist_chart, all_companies_chart, handled, raised,
                   selection_before, observed, label_in>>

NextClassify == PickLabel \/ Classify

SpecClassify == InitClassify /\ [][NextClassify]_vars

-----------------------------------------------------------------------------
(* Properties *)

Range(f) == {f[i] : i \in 1..Len(f)}

\* the row of the data with this index label
RowAt(index) == df[index + 1]

\* the canonical band of every entity, by the classifier
CanonicalBand ==
    [name \in Names |->
        Employee_Band_Standard(
            (CHOOSE r \in Range(df) : r.Entity_Legal_Name = name).Estimated_Employee_Band)]

\* the canonical band of the entity of this name
BandOfName(name) == CanonicalBand[name]

\* the 0-based rank of a band in the ordered band list, if it has one
HasRank(band) == \E k \in 1..Len(band_order) : band_order[k] = band
RankOf(band) == (CHOOSE k \in 1..Len(band_order) : band_order[k] = band) - 1

\* the integer part of a fixed-point number
IntPart(x) == IF x >= 0 THEN x \div 1000 ELSE -((-x) \div 1000)

\* C1: a click resolved to E in the pool chart makes the Selection Set
\* S \cup {E}, a click resolved to E in the shortlist chart makes it S \ {E};
\* a pool click on E followed by a shortlist click on E leaves E out of it.
C1_ClickMovesEntity ==
    [][ /\ handled'.chart = "pool" =>
             SelectionOf(session_state') =
                 SelectionSet \cup {handled'.clicked_company}
        /\ handled'.chart = "shortlist" =>
             SelectionOf(session_state') =
                 SelectionSet \ {handled'.clicked_company}
        /\ ( /\ handled.chart = "pool"
             /\ handled'.chart = "shortlist"
             /\ handled'.clicked_company = handled.clicked_company )
           => handled.clicked_company \notin SelectionOf(session_state')
      ]_vars

\* the rerun after a click handled a shortlist click that removed its entity
C1_Witness ==
    /\ handled.chart = "shortlist"
    /\ last_op = "rerun"
    /\ handled.clicked_company \in selection_before
    /\ handled.clicked_company \notin SelectionSet

\* C2: a click whose point index is outside the row count of the chart of the
\* current cycle is ignored: no error leaves the render cycle.
C2_StaleClickIgnored == raised # "IndexError"

\* C3: the shortlist and the pool are disjoint, their union is the filtered
\* set, and a filtered entity is in the shortlist iff its name is selected.
C3_Partition ==
    Rendered =>
        /\ Range(shortlist_df) \cap Range(all_companies_df) = {}
        /\ Range(shortlist_df) \cup Range(all_companies_df) = Range(filtered_df)
        /\ Len(shortlist_df) + Len(all_companies_df) = Len(filtered_df)
        /\ \A index \in Range(filtered_df) :
              /\ index \in Range(shortlist_df)
                    <=> RowAt(index).Entity_Legal_Name \in selection_before
              /\ index \in Range(all_companies_df)
                    <=> RowAt(index).Entity_Legal_Name \notin selection_before

C3_Witness ==
    /\ Rendered
    /\ shortlist_df # <<>>
    /\ all_companies_df # <<>>
    /\ Len(filtered_df) < Len(df)

\* C4: a click at index i of the pool chart is resolved to the entity at
\* position i of the pool rows of that cycle; the entity is then selected, and
\* the next cycle puts it in the shortlist chart, at the rank of its canonical
\* band, and not in the pool.
C4_ClickedEntityMovesToShortlist ==
    [][ (handled.chart = "pool" /\ rerun_pending) =>
          /\ handled.clicked_company =
                 RowAt(all_companies_df[handled.point_index + 1]).Entity_Legal_Name
          /\ handled.clicked_company \in SelectionSet
          /\ last_op' = "rerun" =>
                /\ \E i \in 1..Len(shortlist_chart') :
                      /\ shortlist_chart'[i].Entity_Legal_Name = handled.clicked_company
                      /\ shortlist_chart'[i].x_numeric # NaN
                      /\ HasRank(BandOfName(handled.clicked_company))
                      /\ Val(shortlist_chart'[i].x_numeric) =
                             RankOf(BandOfName(handled.clicked_company))
                /\ \A index \in Range(all_companies_df') :
                      RowAt(index).Entity_Legal_Name # handled.clicked_company
      ]_vars

\* C5: the classifier returns the first band, in band order, whose leading
\* token is a substring of the trimmed label, and the trimmed label itself
\* when no band matches.
C5_ClassifierFirstMatch ==
    last_op = "classified" =>
        LET trimmed == strip(label_in)
            matching == {k \in 1..Len(band_order) :
                            Contains(trimmed, split0(band_order[k]))}
        IN  IF matching = {}
            THEN label_out = trimmed
            ELSE label_out =
                     band_order[CHOOSE k \in matching : \A j \in matching : k <= j]

\* a padded label that holds the token of the second band before the token
\* of the first one
C5_Witness ==
    /\ last_op = "classified"
    /\ label_in = <<" ", "6", "-", "1", "9", "1", "-", "5">>
    /\ label_out = band_order[1]

\* C6: apply_filters keeps a row iff it passes every non-empty selection, the
\* band selection being tested on the canonical band; the result keeps the
\* order of the input.
C6_FilterSemantics ==
    Rendered =>
        LET Keep(r) ==
                /\ selected_locations # {} =>
                       r.Headquarters_Location \in selected_locations
                /\ selected_employee_bands # {} =>
                       BandOfName(r.Entity_Legal_Name) \in selected_employee_bands
                /\ selected_anzsic_codes # {} =>
                       r.Primary_ANZSIC_Code \in selected_anzsic_codes
        IN  /\ \A i \in 1..Len(df) :
                  df[i].index \in Range(filtered_df) <=> Keep(df[i])
            /\ \A i, j \in 1..Len(filtered_df) :
                  i < j => filtered_df[i] < filtered_df[j]

\* the three selections are set, and the row kept has a raw label that is not
\* the name of its band
C6_Witness ==
    /\ Rendered
    /\ selected_locations # {}
    /\ selected_employee_bands # {}
    /\ selected_anzsic_codes # {}
    /\ \E index \in Range(filtered_df) :
          RowAt(index).Estimated_Employee_Band \notin Range(band_order)
    /\ Len(filtered_df) < Len(df)

\* the rows of the chart that are in the same band as row i
BandMates(chart, i) ==
    {j \in 1..Len(chart) :
        BandOfName(chart[j].Entity_Legal_Name) = BandOfName(chart[i].Entity_Legal_Name)}

\* C7: two layout passes over the same rows give the same coordinates,
\* whatever happened between them: a pass that draws from the random stream
\* repeats the pass remembered for its rows, and a pass that draws nothing
\* (no listed band has two rows) leaves every offset at zero.
C7_LayoutDeterministic ==
    /\ observed # NotObserved =>
        /\ (shortlist_chart # NotRendered /\ shortlist_df = observed.frame)
              => shortlist_chart = observed.df_plot
        /\ (all_companies_chart # NotRendered /\ all_companies_df = observed.frame)
              => all_companies_chart = observed.df_plot
    /\ \A chart \in {shortlist_chart, all_companies_chart} :
          \A i \in 1..Len(chart) :
              ( \/ ~HasRank(BandOfName(chart[i].Entity_Legal_Name))
                \/ BandMates(chart, i) = {i} )
              => /\ chart[i].x_jitter = 0
                 /\ chart[i].y_jitter = 0
                 /\ chart[i].x_position =
                        Add(band_to_numeric(BandOfName(chart[i].Entity_Legal_Name)), 0)

\* rows laid out in the shortlist chart are laid out again, later, in the
\* pool chart, and a band of them is jittered
C7_Witness ==
    /\ observed # NotObserved
    /\ ~observed.is_rejected
    /\ all_companies_chart # NotRendered
    /\ all_companies_df = observed.frame
    /\ \E i \in 1..Len(all_companies_chart) : all_companies_chart[i].x_jitter # 0

\* C8: every entity of a layout has x = band rank + bounded offset, the
\* integer part of x is the band rank, and entities of different bands have
\* different integer parts; also for a band that fell back to the raw label.
C8_IntegerPartIsBandRank ==
    \A chart \in {shortlist_chart, all_companies_chart} :
        \A i \in 1..Len(chart) :
            /\ chart[i].x_position # NaN
            /\ HasRank(BandOfName(chart[i].Entity_Legal_Name))
            /\ Val(chart[i].x_position) =
                   1000 * RankOf(BandOfName(chart[i].Entity_Legal_Name))
                       + chart[i].x_jitter
            /\ chart[i].x_jitter >= -jitter_strength_x
            /\ chart[i].x_jitter <= jitter_strength_x
            /\ IntPart(Val(chart[i].x_position)) =
                   RankOf(BandOfName(chart[i].Entity_Legal_Name))
            /\ \A j \in 1..Len(chart) :
                  BandOfName(chart[j].Entity_Legal_Name)
                        # BandOfName(chart[i].Entity_Legal_Name)
                  => /\ chart[j].x_position # NaN
                     /\ IntPart(Val(chart[j].x_position))
                            # IntPart(Val(chart[i].x_position))

\* C9: the Selection Set starts empty; a script run leaves it unchanged, adds
\* the one name a pool click resolved, removes the one name a shortlist click
\* resolved, or, for Clear Shortlist, empties it.
C9_SelectionFrame ==
    /\ last_op = "init" => SelectionSet = {}
    /\ handled.chart = "pool" =>
          /\ handled.clicked_company \notin selection_before
          /\ SelectionSet = selection_before \cup {handled.clicked_company}
    /\ handled.chart = "shortlist" =>
          /\ handled.clicked_company \in selection_before
          /\ SelectionSet = selection_before \ {handled.clicked_company}
    /\ last_op = "clear_shortlist" => SelectionSet = {}
    /\ (handled = NoClick /\ last_op # "clear_shortlist") =>
          SelectionSet = selection_before

\* a rerun in which a shortlist click removed one of several selected names
C9_Witness ==
    /\ last_op = "rerun"
    /\ handled.chart = "shortlist"
    /\ Cardinality(selection_before) >= 2
    /\ Cardinality(SelectionSet) = Cardinality(selection_before) - 1

====
